---- MODULE Spec2Model ----
(***************************************************************************)
(* Model of src/swisssystems/common.cpp of BBP Pairings: the publication   *)
(* order of a round's pairings (sortResults), the scan for the most recent *)
(* round in which two players had different colours                        *)
(* (findFirstColorDifference) and the control flow of printChecklist.      *)
(***************************************************************************)
EXTENDS Integers, Sequences, FiniteSets

\* ------------------------------------------------------------------ bounds
\* Players of a generated tournament.
NumPlayers == 4
\* Scores without acceleration are drawn from 0..MaxScore.
MaxScore == 2

\* Matches in the history of each of the two players that are scanned.
MaxRounds == 3
\* Players listed in a checklist.
MaxListed == 2
\* Scores with acceleration of listed players are drawn from 0..MaxListedScore.
MaxListedScore == 1

VARIABLES
  players,   \* tournament.players: player index -> [scoreWithoutAcceleration, rankIndex]
  pairs,     \* the std::list<Pairing> handed to sortResults
  input,     \* the list as it was when sortResults was last entered
  calls,     \* how many times sortResults has run on the list
  matches,   \* player0.matches and player1.matches, oldest round first
  color0,    \* output parameter of findFirstColorDifference
  color1,    \* output parameter of findFirstColorDifference
  scanPc,    \* "build" while the histories grow, "done" once the scan returned
  orderedPlayers, \* printChecklist's list: per player its score with acceleration
                  \* and whether a string of its row is longer than INT_MAX
  headerTooLong,  \* playedRounds >= npos, or a header string longer than INT_MAX
  listPc,    \* the position of printChecklist
  listIndex, \* the player the current loop of printChecklist is at
  ostream,   \* what has been written to the stream, in order
  raised     \* the exception printChecklist caught, "none" if none

sortVars == <<players, pairs, input, calls>>

scanVars == <<matches, color0, color1, scanPc>>

listVars == <<orderedPlayers, headerTooLong, listPc, listIndex, ostream, raised>>

vars == <<players, pairs, input, calls, matches, color0, color1, scanPc,
          orderedPlayers, headerTooLong, listPc, listIndex, ostream, raised>>

\* ----------------------------------------------------------- tournament data
PlayerIds == 0 .. (NumPlayers - 1)

Identity == [p \in PlayerIds |-> p]

Reversed == [p \in PlayerIds |-> (NumPlayers - 1) - p]

Rotated == [p \in PlayerIds |-> (p + 1) % NumPlayers]

\* Rank indices are unique: each order is a permutation of the player indices.
RankOrders == {Identity, Reversed, Rotated}

\* Player indices are labels the sorter reads only through white = black, so
\* the scores are listed in non-decreasing order of the index; the rank orders
\* put them in the same, the opposite and a mixed order.
ScoreLists ==
  { s \in [PlayerIds -> 0 .. MaxScore] :
      \A p \in PlayerIds : \A q \in PlayerIds : p < q => s[p] <= s[q] }

Tournaments ==
  { [p \in PlayerIds |-> [scoreWithoutAcceleration |-> s[p], rankIndex |-> r[p]]] :
      s \in ScoreLists, r \in RankOrders }

\* The tournament of the worked example: a 5-vs-3 pairing (players 0, 1),
\* a 4-vs-4 pairing (players 2, 3) and a bye of a player with score 6; the
\* players with score 4 have better rank indices than the player with 5.
ExampleTournament ==
  LET score == <<5, 3, 4, 4, 6>>
      rank == <<3, 4, 1, 2, 0>>
  IN [p \in 0 .. 4 |-> [scoreWithoutAcceleration |-> score[p + 1],
                        rankIndex |-> rank[p + 1]]]

Pairing(w, b) == [white |-> w, black |-> b]

\* The player indices that already occur in a pairing of the list.
Paired(list) == { list[i].white : i \in DOMAIN list } \cup { list[i].black : i \in DOMAIN list }

\* tournament::unacceleratedScoreRankCompare(player0, player1): player0 stands
\* below player1 (lower score without acceleration, then larger rank index).
unacceleratedScoreRankCompare(player0, player1) ==
  \/ player0.scoreWithoutAcceleration < player1.scoreWithoutAcceleration
  \/ /\ player0.scoreWithoutAcceleration = player1.scoreWithoutAcceleration
     /\ player1.rankIndex < player0.rankIndex

\* ------------------------------------------------------------- sortResults
\* The white player taken as the higher one whatever the comparison says.
higherInPairWhite(pair) == pair.white

higherInPair(pair) ==
  IF unacceleratedScoreRankCompare(players[pair.white], players[pair.black])
    THEN pair.black
    ELSE pair.white

lowerInPair(pair, higher) ==
  IF pair.white = higher THEN pair.black ELSE pair.white

BoolRank(b) == IF b THEN 1 ELSE 0

\* std::tuple's operator< on (bool, score, score, rank index): lexicographic.
TupleLess(t, u) ==
  IF t[1] # u[1] THEN t[1] < u[1]
  ELSE IF t[2] # u[2] THEN t[2] < u[2]
  ELSE IF t[3] # u[3] THEN t[3] < u[3]
  ELSE t[4] < u[4]

\* Variants of the comparator, each a slip the lambda could contain.
\* The rank index of the higher player left out of the key.
PairLessNoRank(pair0, pair1) ==
  LET higherInPair0 == higherInPair(pair0)
      higherInPair1 == higherInPair(pair1)
      lowerInPair0 == lowerInPair(pair0, higherInPair0)
      lowerInPair1 == lowerInPair(pair1, higherInPair1)
  IN TupleLess(
       << BoolRank(pair0.white = pair0.black),
          players[higherInPair1].scoreWithoutAcceleration,
          players[lowerInPair1].scoreWithoutAcceleration,
          0 >>,
       << BoolRank(pair1.white = pair1.black),
          players[higherInPair0].scoreWithoutAcceleration,
          players[lowerInPair0].scoreWithoutAcceleration,
          0 >>)

\* The bye flag compared last instead of first.
PairLessByeLast(pair0, pair1) ==
  LET higherInPair0 == higherInPair(pair0)
      higherInPair1 == higherInPair(pair1)
      lowerInPair0 == lowerInPair(pair0, higherInPair0)
      lowerInPair1 == lowerInPair(pair1, higherInPair1)
  IN TupleLess(
       << players[higherInPair1].scoreWithoutAcceleration,
          players[lowerInPair1].scoreWithoutAcceleration,
          players[higherInPair0].rankIndex,
          BoolRank(pair0.white = pair0.black) >>,
       << players[higherInPair0].scoreWithoutAcceleration,
          players[lowerInPair0].scoreWithoutAcceleration,
          players[higherInPair1].rankIndex,
          BoolRank(pair1.white = pair1.black) >>)

\* Each tuple built from its own pairing's scores: ascending scores.
PairLessOwnScores(pair0, pair1) ==
  LET higherInPair0 == higherInPair(pair0)
      higherInPair1 == higherInPair(pair1)
      lowerInPair0 == lowerInPair(pair0, higherInPair0)
      lowerInPair1 == lowerInPair(pair1, higherInPair1)
  IN TupleLess(
       << BoolRank(pair0.white = pair0.black),
          players[higherInPair0].scoreWithoutAcceleration,
          players[lowerInPair0].scoreWithoutAcceleration,
          players[higherInPair0].rankIndex >>,
       << BoolRank(pair1.white = pair1.black),
          players[higherInPair1].scoreWithoutAcceleration,
          players[lowerInPair1].scoreWithoutAcceleration,
          players[higherInPair1].rankIndex >>)

\* The rank indices exchanged between the tuples like the scores.
PairLessOtherRank(pair0, pair1) ==
  LET higherInPair0 == higherInPair(pair0)
      higherInPair1 == higherInPair(pair1)
      lowerInPair0 == lowerInPair(pair0, higherInPair0)
      lowerInPair1 == lowerInPair(pair1, higherInPair1)
  IN TupleLess(
       << BoolRank(pair0.white = pair0.black),
          players[higherInPair1].scoreWithoutAcceleration,
          players[lowerInPair1].scoreWithoutAcceleration,
          players[higherInPair1].rankIndex >>,
       << BoolRank(pair1.white = pair1.black),
          players[higherInPair0].scoreWithoutAcceleration,
          players[lowerInPair0].scoreWithoutAcceleration,
          players[higherInPair0].rankIndex >>)

\* The second tuple's third element read from the rank index of pair0's
\* higher player instead of the score of its lower player.
PairLessMixedScores(pair0, pair1) ==
  LET higherInPair0 == higherInPair(pair0)
      higherInPair1 == higherInPair(pair1)
      lowerInPair0 == lowerInPair(pair0, higherInPair0)
      lowerInPair1 == lowerInPair(pair1, higherInPair1)
  IN TupleLess(
       << BoolRank(pair0.white = pair0.black),
          players[higherInPair1].scoreWithoutAcceleration,
          players[lowerInPair1].scoreWithoutAcceleration,
          players[higherInPair0].rankIndex >>,
       << BoolRank(pair1.white = pair1.black),
          players[higherInPair0].scoreWithoutAcceleration,
          players[higherInPair0].rankIndex,
          players[higherInPair1].rankIndex >>)

\* The lambda handed to pairs.sort: pair0 goes before pair1.
PairLess(pair0, pair1) ==
  LET higherInPair0 == higherInPair(pair0)
      higherInPair1 == higherInPair(pair1)
      lowerInPair0 == lowerInPair(pair0, higherInPair0)
      lowerInPair1 == lowerInPair(pair1, higherInPair1)
  IN TupleLess(
       << BoolRank(pair0.white = pair0.black),
          players[higherInPair1].scoreWithoutAcceleration,
          players[lowerInPair1].scoreWithoutAcceleration,
          players[higherInPair0].rankIndex >>,
       << BoolRank(pair1.white = pair1.black),
          players[higherInPair0].scoreWithoutAcceleration,
          players[lowerInPair0].scoreWithoutAcceleration,
          players[higherInPair1].rankIndex >>)

\* One merge step of std::list::sort: the head of the right run is taken only
\* when it compares less than the head of the left run (stability).
RECURSIVE Merge(_, _)
Merge(left, right) ==
  IF left = <<>> THEN right
  ELSE IF right = <<>> THEN left
  ELSE IF PairLess(Head(right), Head(left))
    THEN <<Head(right)>> \o Merge(left, Tail(right))
    ELSE <<Head(left)>> \o Merge(Tail(left), right)

\* std::list::sort(comp): a stable merge sort.
RECURSIVE ListSort(_)
ListSort(list) ==
  IF Len(list) <= 1 THEN list
  ELSE LET half == Len(list) \div 2
       IN Merge(ListSort(SubSeq(list, 1, half)),
                ListSort(SubSeq(list, half + 1, Len(list))))

sortResults(list) == ListSort(list)

\* ------------------------------------------------------------------ actions
InitSort ==
  /\ players \in Tournaments \cup {ExampleTournament}
  /\ pairs = <<>>
  /\ input = <<>>
  /\ calls = 0
  /\ matches = <<>>
  /\ color0 = "unset"
  /\ color1 = "unset"
  /\ scanPc = "idle"
  /\ orderedPlayers = <<>>
  /\ headerTooLong = FALSE
  /\ listPc = "idle"
  /\ listIndex = 0
  /\ ostream = <<>>
  /\ raised = "none"

\* The pairing engine appends a pairing of two unpaired players, or the bye
\* of an unpaired player (white = black), to the round's list.
AddPairing ==
  /\ calls = 0
  /\ \E w \in DOMAIN players \ Paired(pairs) :
       \E b \in DOMAIN players \ Paired(pairs) :
         pairs' = Append(pairs, Pairing(w, b))
  /\ UNCHANGED <<players, input, calls>>
  /\ UNCHANGED scanVars
  /\ UNCHANGED listVars

\* sortResults(pairs, tournament); run at most twice on the same list.
SortResults ==
  /\ calls < 2
  /\ input' = pairs
  /\ pairs' = sortResults(pairs)
  /\ calls' = calls + 1
  /\ UNCHANGED players
  /\ UNCHANGED scanVars
  /\ UNCHANGED listVars

NextSort == AddPairing \/ SortResults

SpecSort == InitSort /\ [][NextSort]_vars

\* ----------------------------------------------- findFirstColorDifference
COLOR_WHITE == "white"

COLOR_BLACK == "black"

COLOR_NONE == "none"

Colors == {COLOR_WHITE, COLOR_BLACK, COLOR_NONE}

\* tournament::Match, reduced to the fields common.cpp reads.
Match(o, c, played) == [opponent |-> o, color |-> c, gameWasPlayed |-> played]

\* A const_reverse_iterator into a history is the index of the match it
\* points at: rbegin() is Len(list), ++ subtracts one, rend() is 0.
rbegin(list) == Len(list)

rend(list) == 0

\* skipUnplayedGames left out: the iterator is returned as it came.
skipUnplayedGamesNot(list, iterator, endIterator) == iterator

RECURSIVE skipUnplayedGames(_, _, _)
skipUnplayedGames(list, iterator, endIterator) ==
  IF iterator # endIterator /\ ~list[iterator].gameWasPlayed
    THEN skipUnplayedGames(list, iterator - 1, endIterator)
    ELSE iterator

\* The loop without its test of the two colours: it runs until one history
\* is exhausted.
RECURSIVE colorLoopNoColorTest(_, _, _, _)
colorLoopNoColorTest(matches0, matches1, iterator0, iterator1) ==
  IF /\ iterator0 # rend(matches0)
     /\ iterator1 # rend(matches1)
    THEN colorLoopNoColorTest(
           matches0, matches1,
           skipUnplayedGames(matches0, iterator0 - 1, rend(matches0)),
           skipUnplayedGames(matches1, iterator1 - 1, rend(matches1)))
    ELSE <<iterator0, iterator1>>

\* The loop stepping to the previous match, played or not.
RECURSIVE colorLoopNoSkip(_, _, _, _)
colorLoopNoSkip(matches0, matches1, iterator0, iterator1) ==
  IF /\ iterator0 # rend(matches0)
     /\ iterator1 # rend(matches1)
     /\ matches0[iterator0].color = matches1[iterator1].color
    THEN colorLoopNoSkip(matches0, matches1, iterator0 - 1, iterator1 - 1)
    ELSE <<iterator0, iterator1>>

\* The while loop of findFirstColorDifference: the two iterators where it ends.
RECURSIVE colorLoop(_, _, _, _)
colorLoop(matches0, matches1, iterator0, iterator1) ==
  IF /\ iterator0 # rend(matches0)
     /\ iterator1 # rend(matches1)
     /\ matches0[iterator0].color = matches1[iterator1].color
    THEN colorLoop(
           matches0, matches1,
           skipUnplayedGames(matches0, iterator0 - 1, rend(matches0)),
           skipUnplayedGames(matches1, iterator1 - 1, rend(matches1)))
    ELSE <<iterator0, iterator1>>

\* findFirstColorDifference(player0, player1, color0, color1): <<color0, color1>>.
findFirstColorDifference(matches0, matches1) ==
  LET last == colorLoop(
                matches0, matches1,
                skipUnplayedGames(matches0, rbegin(matches0), rend(matches0)),
                skipUnplayedGames(matches1, rbegin(matches1), rend(matches1)))
      iterator0 == last[1]
      iterator1 == last[2]
  IN << IF iterator0 = rend(matches0) THEN COLOR_NONE ELSE matches0[iterator0].color,
        IF iterator1 = rend(matches1) THEN COLOR_NONE ELSE matches1[iterator1].color >>

\* The matches a history can hold: a played game has white or black, a game
\* that was not played (a bye, a forfeit) has a colour or none.
PlayedMatches(p) == { Match(1 - p, c, TRUE) : c \in {COLOR_WHITE, COLOR_BLACK} }

UnplayedMatches(p) == { Match(o, c, FALSE) : o \in {p, 1 - p}, c \in Colors }

HistoryMatches(p) ==
  PlayedMatches(p) \cup { Match(p, COLOR_NONE, FALSE), Match(1 - p, COLOR_WHITE, FALSE) }

InitScan ==
  /\ matches = [p \in {0, 1} |-> <<>>]
  /\ color0 = "unset"
  /\ color1 = "unset"
  /\ scanPc = "build"
  /\ players = <<>>
  /\ pairs = <<>>
  /\ input = <<>>
  /\ calls = 0
  /\ orderedPlayers = <<>>
  /\ headerTooLong = FALSE
  /\ listPc = "idle"
  /\ listIndex = 0
  /\ ostream = <<>>
  /\ raised = "none"

\* A round is recorded for one of the two players: histories only grow.
AppendMatch ==
  /\ scanPc = "build"
  /\ \E p \in {0, 1} :
       /\ Len(matches[p]) < MaxRounds
       /\ \E m \in HistoryMatches(p) :
            matches' = [matches EXCEPT ![p] = Append(@, m)]
  /\ UNCHANGED <<color0, color1, scanPc>>
  /\ UNCHANGED sortVars
  /\ UNCHANGED listVars

\* The pairing engine calls findFirstColorDifference on the two players.
FindFirstColorDifference ==
  /\ scanPc = "build"
  /\ LET result == findFirstColorDifference(matches[0], matches[1])
     IN /\ color0' = result[1]
        /\ color1' = result[2]
  /\ scanPc' = "done"
  /\ UNCHANGED matches
  /\ UNCHANGED sortVars
  /\ UNCHANGED listVars

NextScan == AppendMatch \/ FindFirstColorDifference

SpecScan == InitScan /\ [][NextScan]_vars

\* ----------------------------------------------------------- printChecklist
\* What the stream receives, piece by piece.
Piece(text, player) == [text |-> text, player |-> player]

Endl == Piece("endl", 0)

HeaderRow == Piece("header", 0)

PlayerRow(i) == Piece("row", i)

LengthErrorMessage ==
  Piece("Error: The build does not support checklists for tournaments this large.", 0)

BadAllocMessage ==
  Piece("Error: There was not enough memory to construct the checklist.", 0)

\* The catch clauses: the message of the exception that was thrown.
Caught(exception) ==
  IF exception = "length_error" THEN <<LengthErrorMessage>> ELSE <<BadAllocMessage>>

ListedPlayers ==
  [scoreWithAcceleration : 0 .. MaxListedScore, rowTooLong : BOOLEAN]

InitList ==
  /\ \E n \in 0 .. MaxListed : orderedPlayers \in [1 .. n -> ListedPlayers]
  /\ headerTooLong \in BOOLEAN
  /\ listPc = "header_widths"
  /\ listIndex = 0
  /\ ostream = <<>>
  /\ raised = "none"
  /\ players = <<>>
  /\ pairs = <<>>
  /\ input = <<>>
  /\ calls = 0
  /\ matches = <<>>
  /\ color0 = "unset"
  /\ color1 = "unset"
  /\ scanPc = "idle"

\* The first loop: getHeader, and the width of each header string; a
\* length_error is caught at once.
HeaderWidths ==
  /\ listPc = "header_widths"
  /\ IF headerTooLong
       THEN /\ raised' = "length_error"
            /\ ostream' = ostream \o Caught("length_error")
            /\ listPc' = "epilogue"
            /\ UNCHANGED listIndex
       ELSE /\ listPc' = "row_widths"
            /\ listIndex' = 1
            /\ UNCHANGED <<ostream, raised>>
  /\ UNCHANGED <<orderedPlayers, headerTooLong>>
  /\ UNCHANGED sortVars
  /\ UNCHANGED scanVars

\* The second loop, one player: getRow and updateColumnWidths.
RowWidths ==
  /\ listPc = "row_widths"
  /\ listIndex <= Len(orderedPlayers)
  /\ IF orderedPlayers[listIndex].rowTooLong
       THEN /\ raised' = "length_error"
            /\ ostream' = ostream \o Caught("length_error")
            /\ listPc' = "epilogue"
            /\ UNCHANGED listIndex
       ELSE /\ listIndex' = listIndex + 1
            /\ UNCHANGED <<ostream, raised, listPc>>
  /\ UNCHANGED <<orderedPlayers, headerTooLong>>
  /\ UNCHANGED sortVars
  /\ UNCHANGED scanVars

\* The line break and the header row.
PrintHeader ==
  /\ listPc = "row_widths"
  /\ listIndex > Len(orderedPlayers)
  /\ ostream' = ostream \o <<Endl, HeaderRow>>
  /\ listPc' = "print_rows"
  /\ listIndex' = 1
  /\ UNCHANGED <<orderedPlayers, headerTooLong, raised>>
  /\ UNCHANGED sortVars
  /\ UNCHANGED scanVars

\* The line breaks written in front of a player's row: a second one for the
\* first player and where the score with acceleration changes.
RowBreaks(i) ==
  IF i = 1 \/ orderedPlayers[i - 1].scoreWithAcceleration
                # orderedPlayers[i].scoreWithAcceleration
    THEN <<Endl, Endl>>
    ELSE <<Endl>>

\* The third loop, one player: the line breaks and the row.
PrintPlayerRow ==
  /\ listPc = "print_rows"
  /\ listIndex <= Len(orderedPlayers)
  /\ ostream' = ostream \o RowBreaks(listIndex) \o <<PlayerRow(listIndex)>>
  /\ listIndex' = listIndex + 1
  /\ UNCHANGED <<orderedPlayers, headerTooLong, listPc, raised>>
  /\ UNCHANGED sortVars
  /\ UNCHANGED scanVars

\* The third loop has ended.
RowsPrinted ==
  /\ listPc = "print_rows"
  /\ listIndex > Len(orderedPlayers)
  /\ listPc' = "epilogue"
  /\ UNCHANGED <<orderedPlayers, headerTooLong, listIndex, ostream, raised>>
  /\ UNCHANGED sortVars
  /\ UNCHANGED scanVars

\* An allocation fails while the widths are computed: in getHeader, in
\* getRow or in a push_back. Nothing has been written yet.
BadAllocInWidths ==
  /\ \/ listPc = "header_widths"
     \/ listPc = "row_widths" /\ listIndex <= Len(orderedPlayers)
  /\ raised' = "bad_alloc"
  /\ ostream' = ostream \o Caught("bad_alloc")
  /\ listPc' = "epilogue"
  /\ UNCHANGED <<orderedPlayers, headerTooLong, listIndex>>
  /\ UNCHANGED sortVars
  /\ UNCHANGED scanVars

\* An allocation fails in the getHeader call of the output part: the line
\* break in front of the header has been written.
BadAllocInPrintHeader ==
  /\ listPc = "row_widths"
  /\ listIndex > Len(orderedPlayers)
  /\ raised' = "bad_alloc"
  /\ ostream' = ostream \o <<Endl>> \o Caught("bad_alloc")
  /\ listPc' = "epilogue"
  /\ UNCHANGED <<orderedPlayers, headerTooLong, listIndex>>
  /\ UNCHANGED sortVars
  /\ UNCHANGED scanVars

\* An allocation fails in the getRow call of the output part: the line
\* breaks in front of the row have been written, after the header and the
\* rows of the players before.
BadAllocInPrintRow ==
  /\ listPc = "print_rows"
  /\ listIndex <= Len(orderedPlayers)
  /\ raised' = "bad_alloc"
  /\ ostream' = ostream \o RowBreaks(listIndex) \o Caught("bad_alloc")
  /\ listPc' = "epilogue"
  /\ UNCHANGED <<orderedPlayers, headerTooLong, listIndex>>
  /\ UNCHANGED sortVars
  /\ UNCHANGED scanVars

\* The three line breaks after the try block, and the return.
TrailingBreaks ==
  /\ listPc = "epilogue"
  /\ ostream' = ostream \o <<Endl, Endl, Endl>>
  /\ listPc' = "done"
  /\ UNCHANGED <<orderedPlayers, headerTooLong, listIndex, raised>>
  /\ UNCHANGED sortVars
  /\ UNCHANGED scanVars

NextList ==
  \/ HeaderWidths
  \/ RowWidths
  \/ PrintHeader
  \/ PrintPlayerRow
  \/ RowsPrinted
  \/ BadAllocInWidths
  \/ BadAllocInPrintHeader
  \/ BadAllocInPrintRow
  \/ TrailingBreaks

SpecList == InitList /\ [][NextList]_vars

\* ---------------------------------------------------- checklist: properties
IsRow(piece) == piece.text \in {"header", "row"}

\* C9: whenever a length_error or a bad_alloc is raised at any point of the
\* assembly, the stream receives the one-line message in place of the
\* report: no header and no player row has been written before it, the
\* failure does not leave printChecklist, and the stream ends with the
\* three line breaks.
C9_MessageInPlaceOfReport ==
  (listPc = "done" /\ raised # "none") =>
    /\ \E i \in DOMAIN ostream : ostream[i] \in {LengthErrorMessage, BadAllocMessage}
    /\ \A i \in DOMAIN ostream : ~IsRow(ostream[i])
    /\ SubSeq(ostream, Len(ostream) - 2, Len(ostream)) = <<Endl, Endl, Endl>>

\* ------------------------------------------------------ scanner: properties
\* The colours of the played games of a history, most recent first.
RECURSIVE PlayedColorsFrom(_, _)
PlayedColorsFrom(list, i) ==
  IF i = 0 THEN <<>>
  ELSE IF list[i].gameWasPlayed
    THEN <<list[i].color>> \o PlayedColorsFrom(list, i - 1)
    ELSE PlayedColorsFrom(list, i - 1)

PlayedColors(list) == PlayedColorsFrom(list, Len(list))

\* The first position at which a sequence has ended or the two differ.
Diverges(a, b, k) == k > Len(a) \/ k > Len(b) \/ a[k] # b[k]

DivergenceAt(a, b) ==
  CHOOSE k \in 1 .. (Len(a) + 1) :
    Diverges(a, b, k) /\ \A j \in 1 .. (k - 1) : ~Diverges(a, b, j)

ColorAt(a, k) == IF k <= Len(a) THEN a[k] ELSE COLOR_NONE

\* C5: findFirstColorDifference returns the colours at the most recent
\* divergence of the two sequences of played-game colours, no-color for a
\* sequence that has ended there; two returned colours that are both not
\* no-color differ, and a player without played games gets no-color.
C5_MostRecentDivergence ==
  scanPc = "done" =>
    LET a == PlayedColors(matches[0])
        b == PlayedColors(matches[1])
        k == DivergenceAt(a, b)
    IN /\ color0 = ColorAt(a, k)
       /\ color1 = ColorAt(b, k)
       /\ (color0 # COLOR_NONE /\ color1 # COLOR_NONE) => color0 # color1
       /\ a = <<>> => color0 = COLOR_NONE
       /\ b = <<>> => color1 = COLOR_NONE
       /\ (a = <<COLOR_WHITE, COLOR_BLACK, COLOR_WHITE>>
             /\ b = <<COLOR_BLACK, COLOR_BLACK, COLOR_WHITE>>)
            => (color0 = COLOR_WHITE /\ color1 = COLOR_BLACK)

\* The scan returned the colours of the second most recent played games,
\* the most recent ones being equal and a game that was not played lying
\* in player0's history.
C5_Witness ==
  /\ scanPc = "done"
  /\ LET a == PlayedColors(matches[0])
         b == PlayedColors(matches[1])
     IN /\ Len(a) >= 2 /\ Len(b) >= 2
        /\ a[1] = b[1] /\ a[2] # b[2]
        /\ color0 = a[2] /\ color1 = b[2]
  /\ \E i \in DOMAIN matches[0] : ~matches[0][i].gameWasPlayed

\* The history with a match put in after its first pos matches.
InsertAt(list, pos, m) ==
  SubSeq(list, 1, pos) \o <<m>> \o SubSeq(list, pos + 1, Len(list))

\* C6: a match that was not played, put at any position of either player's
\* history with any colour and opponent, leaves the returned colours as
\* they are without it.
C6_UnplayedTransparent ==
  scanPc = "done" =>
    /\ \A pos \in 0 .. Len(matches[0]) : \A m \in UnplayedMatches(0) :
         findFirstColorDifference(InsertAt(matches[0], pos, m), matches[1])
           = <<color0, color1>>
    /\ \A pos \in 0 .. Len(matches[1]) : \A m \in UnplayedMatches(1) :
         findFirstColorDifference(matches[0], InsertAt(matches[1], pos, m))
           = <<color0, color1>>

\* The scan returned two colours for histories of two and three matches in
\* which games that were not played stand last and in between.
C6_Witness ==
  /\ scanPc = "done"
  /\ color0 # COLOR_NONE
  /\ color1 # COLOR_NONE
  /\ Len(matches[0]) = 2 /\ ~matches[0][2].gameWasPlayed
  /\ Len(matches[1]) = 3 /\ ~matches[1][2].gameWasPlayed

\* C7: two players whose played games have the same colours, round for
\* round, get (no-color, no-color), the scan ending without reading past
\* the oldest match.
C7_IdenticalHistories ==
  (scanPc = "done" /\ PlayedColors(matches[0]) = PlayedColors(matches[1]))
    => (color0 = COLOR_NONE /\ color1 = COLOR_NONE)

\* The scan returned for two players with the same two played colours, one
\* of them with a game that was not played between the two.
C7_Witness ==
  /\ scanPc = "done"
  /\ PlayedColors(matches[0]) = PlayedColors(matches[1])
  /\ Len(PlayedColors(matches[0])) = 2
  /\ Len(matches[0]) = 3 /\ ~matches[0][2].gameWasPlayed
  /\ Len(matches[1]) = 2
  /\ color0 = COLOR_NONE /\ color1 = COLOR_NONE

\* ------------------------------------------------------- sorter: properties
IsBye(pair) == pair.white = pair.black

HigherScore(pair) == players[higherInPair(pair)].scoreWithoutAcceleration

LowerScore(pair) == players[lowerInPair(pair, higherInPair(pair))].scoreWithoutAcceleration

HigherRank(pair) == players[higherInPair(pair)].rankIndex

RoundPairings == { pairs[i] : i \in DOMAIN pairs }

\* The three more significant keys of two pairings are all tied.
KeysTied(a, b) ==
  /\ IsBye(a) = IsBye(b)
  /\ HigherScore(a) = HigherScore(b)
  /\ LowerScore(a) = LowerScore(b)

\* C1: the comparator of sortResults is a strict total order over the
\* pairings of one round (byes included): a<a never holds, of two distinct
\* pairings exactly one goes before the other, and a<b, b<c imply a<c.
C1_StrictTotalOrder ==
  \A i \in DOMAIN pairs :
    /\ ~PairLess(pairs[i], pairs[i])
    /\ \A j \in DOMAIN pairs :
         IF PairLess(pairs[i], pairs[j])
           THEN /\ ~PairLess(pairs[j], pairs[i])
                /\ \A k \in DOMAIN pairs :
                     PairLess(pairs[j], pairs[k]) => PairLess(pairs[i], pairs[k])
           ELSE i # j => PairLess(pairs[j], pairs[i])

\* Three pairings, a bye and a game among them, two of them tied on every key
\* but the rank index.
C1_Witness ==
  /\ Len(pairs) = 3
  /\ \E a \in RoundPairings : IsBye(a)
  /\ \E a \in RoundPairings : ~IsBye(a)
  /\ \E a \in RoundPairings : \E b \in RoundPairings : a # b /\ KeysTied(a, b)

\* C2: after sortResults every bye stands after every pairing that is not a
\* bye, whatever the scores and rank indices.
C2_ByesLast ==
  calls >= 1 =>
    \A i \in DOMAIN pairs : \A j \in DOMAIN pairs :
      (IsBye(pairs[i]) /\ ~IsBye(pairs[j])) => j < i

\* A sorted list whose input had a bye in front of a game, the bye's player
\* having the larger score and the better rank index.
C2_Witness ==
  /\ calls = 1
  /\ \E i \in DOMAIN input : \E j \in DOMAIN input :
       /\ i < j
       /\ IsBye(input[i])
       /\ ~IsBye(input[j])
       /\ HigherScore(input[i]) > HigherScore(input[j])
       /\ HigherRank(input[i]) < HigherRank(input[j])

\* The input list holds the three pairings of the worked example.
IsExample ==
  /\ players = ExampleTournament
  /\ Len(input) = 3
  /\ \E i \in DOMAIN input : input[i] \in {Pairing(0, 1), Pairing(1, 0)}
  /\ \E i \in DOMAIN input : input[i] \in {Pairing(2, 3), Pairing(3, 2)}
  /\ \E i \in DOMAIN input : input[i] = Pairing(4, 4)

\* C3 as stated: among pairings with the same bye flag the one whose higher
\* player has the lower score goes first, and the example set is ordered
\* [4-vs-4 pair, 5-vs-3 pair, bye].
C3_LowerScoreFirst ==
  calls >= 1 =>
    /\ \A i \in DOMAIN pairs : \A j \in DOMAIN pairs :
         (IsBye(pairs[i]) = IsBye(pairs[j]) /\ HigherScore(pairs[i]) < HigherScore(pairs[j]))
           => i < j
    /\ IsExample =>
         /\ pairs[1] \in {Pairing(2, 3), Pairing(3, 2)}
         /\ pairs[2] \in {Pairing(0, 1), Pairing(1, 0)}
         /\ pairs[3] = Pairing(4, 4)

\* C3 amended: among pairings with the same bye flag the one whose higher
\* player has the HIGHER score without acceleration goes first, and the
\* example set is ordered [5-vs-3 pair, 4-vs-4 pair, bye].
C3_HigherScoreFirst ==
  calls >= 1 =>
    /\ \A i \in DOMAIN pairs : \A j \in DOMAIN pairs :
         (IsBye(pairs[i]) = IsBye(pairs[j]) /\ HigherScore(pairs[i]) > HigherScore(pairs[j]))
           => i < j
    /\ IsExample =>
         /\ pairs[1] \in {Pairing(0, 1), Pairing(1, 0)}
         /\ pairs[2] \in {Pairing(2, 3), Pairing(3, 2)}
         /\ pairs[3] = Pairing(4, 4)

\* The example set, handed over with the bye first and the 4-vs-4 pair second.
C3_Witness ==
  /\ calls = 1
  /\ IsExample
  /\ input[1] = Pairing(4, 4)
  /\ input[2] \in {Pairing(2, 3), Pairing(3, 2)}

\* The list with the colours of its i-th pairing exchanged.
SwapAt(list, i) == [list EXCEPT ![i] = Pairing(list[i].black, list[i].white)]

\* C4: exchanging white and black in one pairing of the input leaves that
\* pairing and every other pairing at its position in the sorted list.
C4_OrientationIndependent ==
  calls = 1 =>
    \A i \in DOMAIN input :
      sortResults(SwapAt(input, i)) =
        [k \in DOMAIN pairs |->
           IF pairs[k] = input[i] THEN Pairing(input[i].black, input[i].white) ELSE pairs[k]]

\* A sorted list of two games whose higher players are the black players,
\* one of them higher only by its rank index.
C4_Witness ==
  /\ calls = 1
  /\ Len(pairs) >= 2
  /\ \A i \in DOMAIN pairs : ~IsBye(pairs[i]) /\ higherInPair(pairs[i]) = pairs[i].black
  /\ \E i \in DOMAIN pairs : HigherScore(pairs[i]) = LowerScore(pairs[i])
  /\ pairs # input

\* C8: sortResults applied to its own output changes nothing, and the output
\* of the first call is a permutation of its input.
C8_Idempotent ==
  /\ calls = 2 => pairs = input
  /\ calls = 1 =>
       /\ Len(pairs) = Len(input)
       /\ \A x \in RoundPairings \cup { input[i] : i \in DOMAIN input } :
            Cardinality({ i \in DOMAIN pairs : pairs[i] = x })
              = Cardinality({ i \in DOMAIN input : input[i] = x })

\* The second call has returned on a list of three pairings, byes and a
\* game, two of them tied on every key but the rank index.
C8_Witness ==
  /\ calls = 2
  /\ Len(pairs) = 3
  /\ IsBye(pairs[3])
  /\ ~IsBye(pairs[1])
  /\ \E i \in DOMAIN pairs : \E j \in DOMAIN pairs : i # j /\ KeysTied(pairs[i], pairs[j])

\* C10: in the sorted list two pairings tied on the bye flag and on both
\* scores stand in the order of the rank index of their higher player, and
\* two pairings not tied on those keys stand in the order of those keys,
\* whatever the rank indices.
C10_RankIndexLast ==
  calls >= 1 =>
    \A i \in DOMAIN pairs : \A j \in DOMAIN pairs :
      i < j =>
        /\ KeysTied(pairs[i], pairs[j]) => HigherRank(pairs[i]) < HigherRank(pairs[j])
        /\ ~KeysTied(pairs[i], pairs[j]) =>
             TupleLess(
               << BoolRank(IsBye(pairs[i])), HigherScore(pairs[j]), LowerScore(pairs[j]), 0 >>,
               << BoolRank(IsBye(pairs[j])), HigherScore(pairs[i]), LowerScore(pairs[i]), 0 >>)

\* A sorted list of three pairings: two tied on the bye flag and on both
\* scores that were handed over in the opposite order, and two not tied of
\* which the first has the larger rank index.
C10_Witness ==
  /\ calls = 1
  /\ Len(pairs) = 3
  /\ \E i \in DOMAIN pairs : \E j \in DOMAIN pairs :
       /\ i < j
       /\ KeysTied(pairs[i], pairs[j])
       /\ \E k \in DOMAIN input : \E l \in DOMAIN input :
            k < l /\ input[k] = pairs[j] /\ input[l] = pairs[i]
  /\ \E i \in DOMAIN pairs : \E j \in DOMAIN pairs :
       i < j /\ ~KeysTied(pairs[i], pairs[j]) /\ HigherRank(pairs[i]) > HigherRank(pairs[j])

====
